---- MODULE Spec2Model ----
(***************************************************************************)
(* Model of app.py: a LINE webhook bot that keeps one language pair per    *)
(* chat (PAIRS, persisted in group_lang.json) and translates every text    *)
(* message between the two languages of the pair through an external      *)
(* translator.                                                             *)
(*                                                                         *)
(* Webhook requests are served by concurrent worker threads; each thread   *)
(* runs on_message for one event at a time.  The handler is split at the   *)
(* points where another thread can interleave: the two SETTINGS_LOCK       *)
(* sections (get_pair, set_pair), the three file operations of             *)
(* _save_pairs, the translator call and the reply.                         *)
(*                                                                         *)
(* A text is a sequence of words separated by single blanks; a word has a  *)
(* script and a number of code points.  Korean and Thai words are written  *)
(* in romanised form.                                                      *)
(***************************************************************************)
EXTENDS Integers, Sequences, FiniteSets, TLC

\* ---------------------------------------------------------------- bounds
\* number of webhook events delivered in one run
MaxMsgs == 2
\* number of webhook events delivered in one run of the longer scenarios
MaxMsgsLong == 3
\* number of faults in one run: failed file operations and process crashes
MaxFaults == 1

\* ------------------------------------------------------------ vocabulary
Threads == {"t1", "t2"}
Chats   == {"group:g1", "user:u1"}

NoPair == <<>>
NoLang == "none"
NoOut  == -1

\* script and length (code points) of each word
WordInfo ==
  [ w \in {"lang", "eon-eo", "ko", "thai", "en", "ja", "hangugeo",
           "taegugeo", "annyeonghaseyo", "sawasdee-khrap"} |->
      CASE w = "lang"           -> [script |-> "latin",  len |-> 4]
        [] w = "eon-eo"         -> [script |-> "hangul", len |-> 2]
        [] w = "ko"             -> [script |-> "latin",  len |-> 2]
        [] w = "thai"           -> [script |-> "latin",  len |-> 4]
        [] w = "en"             -> [script |-> "latin",  len |-> 2]
        [] w = "ja"             -> [script |-> "latin",  len |-> 2]
        [] w = "hangugeo"       -> [script |-> "hangul", len |-> 3]
        [] w = "taegugeo"       -> [script |-> "hangul", len |-> 3]
        [] w = "annyeonghaseyo" -> [script |-> "hangul", len |-> 5]
        [] w = "sawasdee-khrap" -> [script |-> "thai",   len |-> 10]
        [] OTHER                -> [script |-> "latin",  len |-> 2] ]

\* the texts the webhook delivers
Texts ==
  { <<"lang", "en", "ja">>,
    <<"eon-eo", "taegugeo", "hangugeo">>,
    <<"lang", "ko", "ko">>,
    <<"annyeonghaseyo">>,
    <<"annyeonghaseyo", "sawasdee-khrap">> }

\* what translate_text can return: strings of these lengths
Outputs == {0, 6}

RECURSIVE SumLen(_)
SumLen(text) ==
  IF text = <<>> THEN 0 ELSE WordInfo[Head(text)].len + SumLen(Tail(text))

\* len(user_text): the words and the single blanks between them
TextLen(text) == IF text = <<>> THEN 0 ELSE SumLen(text) + Len(text) - 1

HasScript(text, s) == \E i \in 1..Len(text) : WordInfo[text[i]].script = s

\* ------------------------------------------------------------- app.py
LANG_ALIASES ==
  [ w \in {"ko", "hangugeo", "thai", "taegugeo", "en", "ja"} |->
      CASE w = "ko"       -> "ko"
        [] w = "hangugeo" -> "ko"
        [] w = "thai"     -> "th"
        [] w = "taegugeo" -> "th"
        [] w = "en"       -> "en"
        [] OTHER          -> "ja" ]

Langs == {"ko", "th", "en", "ja"}

detect_lang_hangul_first(text) ==
  IF HasScript(text, "hangul") THEN "ko"
  ELSE IF HasScript(text, "thai") THEN "th"
  ELSE NoLang

detect_lang(text) ==
  IF HasScript(text, "thai") THEN "th"
  ELSE IF HasScript(text, "hangul") THEN "ko"
  ELSE NoLang

normalize_lang(token) ==
  IF token \in DOMAIN LANG_ALIASES THEN LANG_ALIASES[token] ELSE NoLang

\* CMD_REGEX: a keyword, then two tokens of Latin letters or Hangul syllables
CMD_REGEX(text) ==
  /\ Len(text) = 3
  /\ text[1] \in {"lang", "eon-eo"}
  /\ \A i \in 2..3 : WordInfo[text[i]].script \in {"latin", "hangul"}

parse_lang_command(text) ==
  IF ~CMD_REGEX(text) THEN NoPair
  ELSE LET a == normalize_lang(text[2])
           b == normalize_lang(text[3])
       IN  IF a # NoLang /\ b # NoLang /\ a # b THEN <<a, b>> ELSE NoPair

DefaultPair == <<"ko", "th">>

FLAG ==
  [ l \in Langs |->
      CASE l = "ko" -> "KR" [] l = "th" -> "TH" [] l = "en" -> "US" [] OTHER -> "JP" ]

build_tag(src, tgt) == <<FLAG[src], FLAG[tgt]>>

\* on_message step 3: the (source, target) of the translation
Direction(pair, detected) ==
  IF detected = pair[1] THEN <<pair[1], pair[2]>>
  ELSE IF detected = pair[2] THEN <<pair[2], pair[1]>>
  ELSE <<pair[1], pair[2]>>

\* reply texts
ConfirmMsg(pair) == [kind |-> "confirm", pair |-> pair, tag |-> <<>>, out |-> NoOut]
ErrorMsg         == [kind |-> "error", pair |-> NoPair, tag |-> <<>>, out |-> NoOut]
NoReply          == [kind |-> "none", pair |-> NoPair, tag |-> <<>>, out |-> NoOut]
TranslationMsg(src, tgt, out) ==
  [kind |-> "translation", pair |-> NoPair, tag |-> build_tag(src, tgt), out |-> out]

\* files
EmptyPairs == [c \in Chats |-> NoPair]
Absent     == [exists |-> FALSE, complete |-> FALSE, pairs |-> EmptyPairs]
Partial    == [exists |-> TRUE,  complete |-> FALSE, pairs |-> EmptyPairs]
Complete(pairs) == [exists |-> TRUE, complete |-> TRUE, pairs |-> pairs]

_load_pairs(f) == IF f.exists /\ f.complete THEN f.pairs ELSE EmptyPairs

VARIABLES
  PAIRS,      \* the in-memory dict: chat key -> pair (NoPair: no entry)
  file,       \* group_lang.json
  tmp,        \* group_lang.json.tmp
  lock,       \* holder of SETTINGS_LOCK, or "none"
  h,          \* per thread: the position and the locals of on_message
  msgs,       \* events delivered so far
  limit,      \* events delivered in this run at most
  crashes,    \* crashes so far
  faults,     \* faults so far: failed file operations and crashes
  cmdPair,    \* per chat: the pair of the last language command answered
  inflight,   \* events received since all threads were last idle
  renamed,    \* the snapshot of the last save whose rename completed
  dirty       \* the dict holds an update that no completed rename has saved

vars == <<PAIRS, file, tmp, lock, h, msgs, limit, crashes, faults, cmdPair,
          inflight, renamed, dirty>>

NoSeen == [text |-> <<>>, call |-> <<>>, out |-> NoOut]

\* pc and the locals of on_message (chat_key, user_text, cmd, pair, src/tgt,
\* reply_text); the other fields record what the handler did and what it saw
\* when its event arrived
Fresh ==
  [ pc |-> "idle", chat |-> "group:g1", text |-> <<>>,
    cmd |-> NoPair, got |-> NoPair, pair |-> NoPair, call |-> <<>>,
    first_out |-> NoOut, failed |-> FALSE, reply_text |-> NoReply,
    nreplies |-> 0, ncalls |-> 0, raised |-> FALSE,
    wrote |-> NoPair, saveFailed |-> FALSE,
    arrival |-> NoPair, first |-> FALSE, seen |-> NoSeen, cmdSeen |-> NoPair ]

\* the process has just started: PAIRS = _load_pairs() (line 140)
Start ==
  /\ file = Absent
  /\ tmp = Absent
  /\ PAIRS = _load_pairs(file)
  /\ lock = "none"
  /\ h = [t \in Threads |-> Fresh]
  /\ msgs = 0
  /\ crashes = 0
  /\ faults = 0
  /\ cmdPair = [c \in Chats |-> NoPair]
  /\ inflight = 0
  /\ renamed = EmptyPairs
  /\ dirty = FALSE

Init == Start /\ limit = MaxMsgs

InitLong == Start /\ limit = MaxMsgsLong

AllIdle == \A t \in Threads : h[t].pc = "idle"

\* the successful translations in chat c whose handler has replied and not
\* yet returned
Answered(c) ==
  { [text |-> h[u].text, call |-> h[u].call, out |-> h[u].reply_text.out] :
      u \in { v \in Threads : /\ h[v].pc = "done" /\ h[v].chat = c
                              /\ h[v].reply_text.kind = "translation" } }

\* the worker that takes the next event: the first one that is idle
Taker(t) == t = "t1" \/ h["t1"].pc # "idle"

\* on_message, lines 247-253: the event arrives, the command is parsed
on_message(t, c, x) ==
  /\ h[t].pc = "idle"
  /\ Taker(t)
  /\ msgs < limit
  /\ msgs' = msgs + 1
  /\ inflight' = IF AllIdle THEN 1 ELSE inflight + 1
  /\ \E s \in (IF Answered(c) = {} THEN {NoSeen} ELSE Answered(c)) :
       h' = [h EXCEPT ![t] =
               [Fresh EXCEPT
                  !.chat = c, !.text = x,
                  !.cmd = parse_lang_command(x),
                  !.pc = IF parse_lang_command(x) # NoPair THEN "set_pair" ELSE "get_pair",
                  !.arrival = PAIRS[c], !.first = AllIdle, !.seen = s,
                  !.cmdSeen = cmdPair[c]]]
  /\ UNCHANGED <<PAIRS, file, tmp, lock, limit, crashes, faults, cmdPair, renamed, dirty>>

\* get_pair, lines 160-165, and the branch of line 263
get_pair(t) ==
  /\ h[t].pc = "get_pair"
  /\ lock = "none"
  /\ h' = [h EXCEPT ![t].got = PAIRS[h[t].chat],
                    ![t].pair = PAIRS[h[t].chat],
                    ![t].pc = IF PAIRS[h[t].chat] = NoPair THEN "set_pair" ELSE "translate"]
  /\ UNCHANGED <<PAIRS, file, tmp, lock, msgs, limit, crashes, faults, cmdPair,
                 inflight, renamed, dirty>>

\* the pair set_pair is called with: the command's (line 256), or the
\* default (line 265)
SetValue(t) == IF h[t].cmd # NoPair THEN h[t].cmd ELSE DefaultPair

\* set_pair, lines 156-157: take the lock, update the dict
set_pair(t) ==
  /\ h[t].pc = "set_pair"
  /\ lock = "none"
  /\ lock' = t
  /\ PAIRS' = [PAIRS EXCEPT ![h[t].chat] = SetValue(t)]
  /\ dirty' = TRUE
  /\ h' = [h EXCEPT ![t].wrote = SetValue(t), ![t].pc = "save_open"]
  /\ UNCHANGED <<file, tmp, msgs, limit, crashes, faults, cmdPair, inflight, renamed>>

\* without the try of line 132 the exception leaves on_message
SaveRaises(t) ==
  /\ faults < MaxFaults
  /\ faults' = faults + 1
  /\ h' = [h EXCEPT ![t].saveFailed = TRUE, ![t].raised = TRUE, ![t].pc = "done"]

\* an exception inside _save_pairs is caught and logged (lines 137-138)
SaveFails(t) ==
  /\ faults < MaxFaults
  /\ faults' = faults + 1
  /\ h' = [h EXCEPT ![t].saveFailed = TRUE, ![t].pc = "save_exit"]

\* the store file itself is opened for writing
_save_pairs_open_in_place(t) ==
  /\ h[t].pc = "save_open"
  /\ file' = Partial
  /\ h' = [h EXCEPT ![t].pc = "save_dump"]
  /\ UNCHANGED <<PAIRS, tmp, lock, msgs, limit, crashes, faults, cmdPair, inflight,
                 renamed, dirty>>

\* _save_pairs, line 134: open the temporary file for writing
_save_pairs_open(t) ==
  /\ h[t].pc = "save_open"
  /\ \/ /\ tmp' = Partial
        /\ h' = [h EXCEPT ![t].pc = "save_dump"]
        /\ UNCHANGED faults
     \/ /\ SaveFails(t)
        /\ UNCHANGED tmp
  /\ UNCHANGED <<PAIRS, file, lock, msgs, limit, crashes, cmdPair, inflight,
                 renamed, dirty>>

\* _save_pairs, line 135: dump the dict and close the temporary file
_save_pairs_dump(t) ==
  /\ h[t].pc = "save_dump"
  /\ \/ /\ tmp' = Complete(PAIRS)
        /\ h' = [h EXCEPT ![t].pc = "save_replace"]
        /\ UNCHANGED faults
     \/ /\ SaveFails(t)
        /\ UNCHANGED tmp
  /\ UNCHANGED <<PAIRS, file, lock, msgs, limit, crashes, cmdPair, inflight,
                 renamed, dirty>>

\* _save_pairs, line 136: rename the temporary file over the store file
_save_pairs_replace(t) ==
  /\ h[t].pc = "save_replace"
  /\ \/ /\ file' = tmp
        /\ tmp' = Absent
        /\ renamed' = PAIRS
        /\ dirty' = FALSE
        /\ h' = [h EXCEPT ![t].pc = "save_exit"]
        /\ UNCHANGED faults
     \/ /\ SaveFails(t)
        /\ UNCHANGED <<file, tmp, renamed, dirty>>
  /\ UNCHANGED <<PAIRS, lock, msgs, limit, crashes, cmdPair, inflight>>

\* _reply, lines 292-302: one text handed to the reply API (cut at 5000
\* characters, which no text here reaches); a failure of the API is caught
\* and logged, so _reply never raises
_reply(r, text) ==
  [r EXCEPT !.reply_text = text, !.nreplies = r.nreplies + 1]

\* the return of line 259 is missing: the handler goes on to step 2
set_pair_exit_no_return(t) ==
  /\ h[t].pc = "save_exit"
  /\ lock' = "none"
  /\ h' = [h EXCEPT ![t] =
             IF h[t].cmd # NoPair
             THEN [_reply(h[t], ConfirmMsg(h[t].cmd)) EXCEPT !.pc = "get_pair"]
             ELSE [h[t] EXCEPT !.pair = DefaultPair, !.pc = "translate"]]
  /\ UNCHANGED <<PAIRS, file, tmp, msgs, limit, crashes, faults, cmdPair, inflight,
                 renamed, dirty>>

\* set_pair returns and releases the lock.  A language command is answered
\* and the handler is finished (lines 257-259); otherwise the default pair
\* is the pair of this message (line 266)
set_pair_exit(t) ==
  /\ h[t].pc = "save_exit"
  /\ lock' = "none"
  /\ h' = [h EXCEPT ![t] =
             IF h[t].cmd # NoPair
             THEN [_reply(h[t], ConfirmMsg(h[t].cmd)) EXCEPT !.pc = "done"]
             ELSE [h[t] EXCEPT !.pair = DefaultPair, !.pc = "translate"]]
  /\ cmdPair' = IF h[t].cmd # NoPair THEN [cmdPair EXCEPT ![h[t].chat] = h[t].cmd]
                ELSE cmdPair
  /\ UNCHANGED <<PAIRS, file, tmp, msgs, limit, crashes, faults, inflight, renamed, dirty>>

\* the except of line 283 is missing: the translator's exception leaves
\* on_message
translate_raises(t) ==
  /\ h[t].pc = "translate"
  /\ LET d == Direction(h[t].pair, detect_lang(h[t].text))
         called == [h[t] EXCEPT !.call = d, !.ncalls = h[t].ncalls + 1, !.pc = "done"]
     IN  \/ \E out \in Outputs :
              h' = [h EXCEPT ![t] =
                      _reply([called EXCEPT !.first_out = out],
                             TranslationMsg(d[1], d[2], out))]
         \/ h' = [h EXCEPT ![t] = [called EXCEPT !.failed = TRUE, !.raised = TRUE]]
  /\ UNCHANGED <<PAIRS, file, tmp, lock, msgs, limit, crashes, faults, cmdPair,
                 inflight, renamed, dirty>>

\* on_message, lines 268-287: the direction, the translator call (it returns
\* a text or raises), the reply
translate(t) ==
  /\ h[t].pc = "translate"
  /\ LET d == Direction(h[t].pair, detect_lang(h[t].text))
         called == [h[t] EXCEPT !.call = d, !.ncalls = h[t].ncalls + 1, !.pc = "done"]
     IN  \/ \E out \in Outputs :
              h' = [h EXCEPT ![t] =
                      _reply([called EXCEPT !.first_out = out],
                             TranslationMsg(d[1], d[2], out))]
         \/ h' = [h EXCEPT ![t] = _reply([called EXCEPT !.failed = TRUE], ErrorMsg)]
  /\ UNCHANGED <<PAIRS, file, tmp, lock, msgs, limit, crashes, faults, cmdPair,
                 inflight, renamed, dirty>>

\* on_message returns to the webhook handler (line 237), the worker is free
return(t) ==
  /\ h[t].pc = "done"
  /\ h' = [h EXCEPT ![t] = Fresh]
  /\ UNCHANGED <<PAIRS, file, tmp, lock, msgs, limit, crashes, faults, cmdPair,
                 inflight, renamed, dirty>>

\* the process is killed and started again: line 140 loads the store file
Crash ==
  /\ faults < MaxFaults
  /\ faults' = faults + 1
  /\ crashes' = crashes + 1
  /\ PAIRS' = _load_pairs(file)
  /\ dirty' = FALSE
  /\ lock' = "none"
  /\ h' = [t \in Threads |-> Fresh]
  /\ inflight' = 0
  /\ UNCHANGED <<file, tmp, msgs, limit, cmdPair, renamed>>

Next ==
  \/ \E t \in Threads, c \in Chats, x \in Texts : on_message(t, c, x)
  \/ \E t \in Threads : get_pair(t)
  \/ \E t \in Threads : set_pair(t)
  \/ \E t \in Threads : _save_pairs_open(t)
  \/ \E t \in Threads : _save_pairs_dump(t)
  \/ \E t \in Threads : _save_pairs_replace(t)
  \/ \E t \in Threads : set_pair_exit(t)
  \/ \E t \in Threads : translate(t)
  \/ \E t \in Threads : return(t)

\* the handlers, without process crashes
Spec == Init /\ [][Next]_vars

NextCrash == Next \/ Crash

\* the handlers and process crashes
SpecCrash == Init /\ [][NextCrash]_vars

\* the handlers, over longer runs
SpecLong == InitLong /\ [][Next]_vars

\* ------------------------------------------------------------ properties
Done(t)    == h[t].pc = "done"
IsText(t)  == h[t].cmd = NoPair
Thai(t)    == HasScript(h[t].text, "thai")
Hangul(t)  == HasScript(h[t].text, "hangul")
SetOf(p)   == {p[i] : i \in 1..Len(p)}

\* C1: every handled message gets exactly one reply text: a handler that has
\* finished has handed one text to the reply sender, one that has not
\* finished has handed none
C1_ExactlyOneReply ==
  \A t \in Threads :
    /\ Done(t) => h[t].nreplies = 1 /\ h[t].reply_text.kind # "none" /\ ~h[t].raised
    /\ ~Done(t) => h[t].nreplies = 0

C1_Witness ==
  \E t, u \in Threads :
    /\ t # u
    /\ Done(t) /\ h[t].cmd # NoPair /\ h[t].reply_text.kind = "confirm"
    /\ Done(u) /\ h[u].failed /\ h[u].reply_text.kind = "error"

\* C2 as stated: when the translator call fails the handler answers with the
\* failure message, does not raise, and has written nothing to the store
C2_NoMutationOnFailure ==
  \A t \in Threads :
    Done(t) /\ h[t].failed =>
      /\ h[t].reply_text = ErrorMsg
      /\ ~h[t].raised
      /\ h[t].wrote = NoPair

\* C2 amended: when the translator call fails the handler answers with the
\* failure message exactly once and does not raise; the only write it has
\* made to the store is the default pair of its chat, made before the call
\* and only when it found no pair stored
C2_FailureReplyAndOnlyDefaultInit ==
  \A t \in Threads :
    /\ Done(t) /\ h[t].failed =>
         /\ h[t].reply_text = ErrorMsg
         /\ h[t].nreplies = 1
         /\ ~h[t].raised
         /\ h[t].wrote # NoPair => h[t].got = NoPair /\ h[t].wrote = <<"ko", "th">>
         /\ h[t].got # NoPair => h[t].wrote = NoPair
    /\ h[t].pc = "translate" /\ h[t].got # NoPair => h[t].wrote = NoPair

C2_Witness ==
  \E t \in Threads :
    /\ Done(t) /\ h[t].failed /\ h[t].reply_text = ErrorMsg
    /\ h[t].got = NoPair /\ h[t].wrote = <<"ko", "th">>
    /\ PAIRS[h[t].chat] = <<"ko", "th">>

\* the stored pair of a chat after a message is handled alone
After(p, text) ==
  IF parse_lang_command(text) # NoPair THEN parse_lang_command(text)
  ELSE IF p = NoPair THEN <<"ko", "th">> ELSE p

\* C3: when two messages of one chat are handled concurrently, the stored
\* pair they leave is the one that one of the two sequential orders leaves
C3_Serialized ==
  \A t, u \in Threads :
    ( /\ t # u /\ Done(t) /\ Done(u) /\ inflight = 2
      /\ h[t].chat = h[u].chat /\ h[t].first ) =>
        PAIRS[h[t].chat] \in
          { After(After(h[t].arrival, h[t].text), h[u].text),
            After(After(h[t].arrival, h[u].text), h[t].text) }

\* C4: a text received again in the same chat after its translation was sent
\* is answered with the same output and without a translator call
C4_ResendServedFromCache ==
  \A t \in Threads :
    Done(t) /\ IsText(t) /\ h[t].seen.text = h[t].text =>
      /\ h[t].ncalls = 0
      /\ h[t].reply_text.kind = "translation"
      /\ h[t].reply_text.out = h[t].seen.out

\* C5: a text with no Korean and no Thai script is translated in the
\* direction of the previous translation of its chat; in a chat with no
\* previous translation the translator is not called and the guidance
\* message is the reply.  (seen: the previous translation, when this is the
\* second message of the run; arrival = NoPair: no message of the chat got
\* as far as the translator before.)
C5_UnknownFollowsLastLanguage ==
  \A t \in Threads :
    Done(t) /\ IsText(t) /\ ~Thai(t) /\ ~Hangul(t) /\ crashes = 0 =>
      /\ msgs = 2 /\ h[t].seen # NoSeen => h[t].ncalls = 1 /\ h[t].call = h[t].seen.call
      /\ h[t].arrival = NoPair =>
           h[t].ncalls = 0 /\ h[t].reply_text.kind = "guidance"

\* C6 as stated: a Korean text is translated (ko, th) and a text with any
\* Thai character (th, ko), whatever the earlier messages were
C6_DirectionAlwaysKoTh ==
  \A t \in Threads :
    Done(t) /\ IsText(t) =>
      /\ Thai(t) =>
           /\ h[t].ncalls = 1 /\ h[t].call = <<"th", "ko">>
           /\ ~h[t].failed => h[t].reply_text.tag = <<"TH", "KR">>
      /\ ~Thai(t) /\ Hangul(t) =>
           /\ h[t].ncalls = 1 /\ h[t].call = <<"ko", "th">>
           /\ ~h[t].failed => h[t].reply_text.tag = <<"KR", "TH">>

\* C6 amended: the same, for a handler whose pair (the stored pair it read,
\* or the default) is Korean and Thai in either order; the tag is in the
\* reply when the translator call succeeds
C6_DirectionWithinKoThPair ==
  \A t \in Threads :
    Done(t) /\ IsText(t) /\ h[t].pair \in {<<"ko", "th">>, <<"th", "ko">>} =>
      /\ Thai(t) =>
           /\ h[t].ncalls = 1 /\ h[t].call = <<"th", "ko">>
           /\ ~h[t].failed => h[t].reply_text.tag = <<"TH", "KR">>
      /\ ~Thai(t) /\ Hangul(t) =>
           /\ h[t].ncalls = 1 /\ h[t].call = <<"ko", "th">>
           /\ ~h[t].failed => h[t].reply_text.tag = <<"KR", "TH">>

C6_Witness ==
  \E t \in Threads :
    /\ Done(t) /\ Thai(t) /\ Hangul(t) /\ ~h[t].failed
    /\ h[t].got = <<"th", "ko">> /\ cmdPair[h[t].chat] = <<"th", "ko">>
    /\ h[t].call = <<"th", "ko">>

\* C7: an output of implausible length for a text of 8 characters or more
\* makes the handler call the translator once more, twice in all; otherwise
\* it calls it once
C7_OneGuardRetry ==
  \A t \in Threads :
    Done(t) /\ IsText(t) /\ ~h[t].failed =>
      LET li == TextLen(h[t].text)
          lo == h[t].first_out
      IN  h[t].ncalls =
            IF li >= 8 /\ (lo < 3 \/ 4 * lo < li \/ 2 * lo > 5 * li) THEN 2 ELSE 1

\* C8: a failed save does not abort the handler: the dict holds the update
\* when set_pair returns, the handler does not raise and the message is
\* answered, once, according to the updated dict; a later message, handled
\* with no other handler at work, is answered according to the dict as well,
\* whatever the store file holds
C8_SaveFailureDoesNotAbort ==
  /\ \A t \in Threads :
       h[t].saveFailed =>
         /\ ~h[t].raised
         /\ h[t].pc \in {"save_exit", "translate", "done"}
         /\ h[t].pc = "save_exit" => lock = t /\ PAIRS[h[t].chat] = h[t].wrote
         /\ h[t].wrote = (IF h[t].cmd # NoPair THEN h[t].cmd ELSE <<"ko", "th">>)
         /\ Done(t) =>
              /\ h[t].nreplies = 1
              /\ h[t].cmd # NoPair => h[t].reply_text = ConfirmMsg(h[t].cmd)
              /\ h[t].cmd = NoPair =>
                   /\ h[t].pair = <<"ko", "th">>
                   /\ h[t].call \in {<<"ko", "th">>, <<"th", "ko">>}
                   /\ h[t].reply_text.kind \in {"translation", "error"}
  /\ \A u \in Threads :
       Done(u) /\ IsText(u) /\ inflight = 1 /\ crashes = 0 =>
         /\ h[u].pair = PAIRS[h[u].chat]
         /\ h[u].arrival # NoPair => h[u].got = h[u].arrival /\ h[u].wrote = NoPair
         /\ SetOf(h[u].call) = SetOf(PAIRS[h[u].chat])

C8_Witness ==
  \E u \in Threads :
    /\ Done(u) /\ IsText(u) /\ inflight = 1
    /\ faults = 1 /\ file = Absent /\ cmdPair[h[u].chat] = <<"en", "ja">>
    /\ h[u].got = <<"en", "ja">> /\ h[u].call = <<"en", "ja">> /\ h[u].nreplies = 1

\* C9: the store file always holds one complete snapshot, the one of the
\* last save whose rename completed (no file: no save has completed); and
\* unless the dict holds an update not saved yet, as it never does after a
\* restart, the dict equals that snapshot
C9_AtomicReplace ==
  /\ file = (IF renamed = EmptyPairs /\ ~file.exists THEN Absent ELSE Complete(renamed))
  /\ \A t \in Threads :
       h[t].pc \in {"save_open", "save_dump", "save_replace"} =>
         file.pairs \in {renamed, PAIRS} /\ (file.exists => file.complete)
  /\ ~dirty => PAIRS = renamed

C9_Witness ==
  /\ crashes = 1
  /\ AllIdle
  /\ tmp.exists /\ tmp.complete /\ tmp.pairs # file.pairs
  /\ file.exists /\ file.complete
  /\ PAIRS = file.pairs /\ PAIRS # EmptyPairs

\* C10: a language command is answered with the confirmation and without a
\* translator call; a text that arrives in the chat after the command was
\* answered, with no later command of the chat answered or in progress, is
\* translated between the two languages of the command
C10_PairFollowsCommand ==
  \A t \in Threads :
    /\ Done(t) /\ h[t].cmd # NoPair =>
         h[t].ncalls = 0 /\ h[t].reply_text = ConfirmMsg(h[t].cmd)
    /\ ( /\ Done(t) /\ IsText(t) /\ h[t].cmdSeen # NoPair
         /\ cmdPair[h[t].chat] = h[t].cmdSeen
         /\ \A u \in Threads \ {t} :
              ~(h[u].pc \notin {"idle", "done"} /\ h[u].chat = h[t].chat
                /\ h[u].cmd # NoPair) ) =>
           /\ h[t].ncalls = 1
           /\ h[t].call[1] # h[t].call[2]
           /\ SetOf(h[t].call) = SetOf(h[t].cmdSeen)

====
